---------------------------- MODULE Spec2Model ----------------------------
(***************************************************************************)
(* Model of OpenFIREshared.h: the pin function catalog, the board preset   *)
(* registry, the layout position packing and the serial command codes      *)
(* shared by the OpenFIRE firmware and its configuration application.      *)
(*                                                                         *)
(* The header holds immutable tables.  The state of the model is the last  *)
(* query a consumer (firmware or application) made against these tables    *)
(* and the answer it got; every action is one such query.                  *)
(***************************************************************************)
EXTENDS Integers, Sequences, FiniteSets, TLC

-----------------------------------------------------------------------------
(* C++ enumerations.  An enumeration is the sequence of its enumerators in *)
(* declaration order; an enumerator either carries an initializer or takes *)
(* the value of its predecessor plus one (zero for the first).             *)

\* enumerator without initializer
A(n) == [name |-> n, hasInit |-> FALSE, init |-> 0]

\* enumerator with initializer "n = v"
E(n, v) == [name |-> n, hasInit |-> TRUE, init |-> v]

RECURSIVE ValueAt(_, _)
ValueAt(decl, k) ==
    IF decl[k].hasInit THEN decl[k].init
    ELSE IF k = 1 THEN 0
    ELSE ValueAt(decl, k - 1) + 1

IndexOf(decl, n) == CHOOSE k \in 1..Len(decl) : decl[k].name = n

EnumValue(decl, n) == ValueAt(decl, IndexOf(decl, n))

EnumNames(decl) == {decl[k].name : k \in 1..Len(decl)}

-----------------------------------------------------------------------------
(* Inputs                                                                  *)

boardInputs_e ==
    << E("unavailable", -2), E("btnUnmapped", -1), E("btnTrigger", 0),
       A("btnGunA"), A("btnGunB"), A("btnGunC"), A("btnStart"),
       A("btnSelect"), A("btnGunUp"), A("btnGunDown"), A("btnGunLeft"),
       A("btnGunRight"), A("btnPedal"), A("btnPedal2"), A("btnPump"),
       A("btnHome"), A("rumblePin"), A("solenoidPin"), A("rumbleSwitch"),
       A("solenoidSwitch"), A("autofireSwitch"), A("neoPixel"), A("ledR"),
       A("ledG"), A("ledB"), A("camSDA"), A("camSCL"), A("periphSDA"),
       A("periphSCL"), A("battery"), A("analogX"), A("analogY"),
       A("tempPin"), A("wiiClockGen"), A("boardInputsCount") >>

unavailable == EnumValue(boardInputs_e, "unavailable")

btnUnmapped == EnumValue(boardInputs_e, "btnUnmapped")

btnTrigger == EnumValue(boardInputs_e, "btnTrigger")

btnGunA == EnumValue(boardInputs_e, "btnGunA")

btnGunB == EnumValue(boardInputs_e, "btnGunB")

btnGunC == EnumValue(boardInputs_e, "btnGunC")

btnStart == EnumValue(boardInputs_e, "btnStart")

btnSelect == EnumValue(boardInputs_e, "btnSelect")

btnGunUp == EnumValue(boardInputs_e, "btnGunUp")

btnGunDown == EnumValue(boardInputs_e, "btnGunDown")

btnGunLeft == EnumValue(boardInputs_e, "btnGunLeft")

btnGunRight == EnumValue(boardInputs_e, "btnGunRight")

btnPedal == EnumValue(boardInputs_e, "btnPedal")

btnPedal2 == EnumValue(boardInputs_e, "btnPedal2")

btnPump == EnumValue(boardInputs_e, "btnPump")

btnHome == EnumValue(boardInputs_e, "btnHome")

rumblePin == EnumValue(boardInputs_e, "rumblePin")

solenoidPin == EnumValue(boardInputs_e, "solenoidPin")

rumbleSwitch == EnumValue(boardInputs_e, "rumbleSwitch")

solenoidSwitch == EnumValue(boardInputs_e, "solenoidSwitch")

autofireSwitch == EnumValue(boardInputs_e, "autofireSwitch")

neoPixel == EnumValue(boardInputs_e, "neoPixel")

ledR == EnumValue(boardInputs_e, "ledR")

ledG == EnumValue(boardInputs_e, "ledG")

ledB == EnumValue(boardInputs_e, "ledB")

camSDA == EnumValue(boardInputs_e, "camSDA")

camSCL == EnumValue(boardInputs_e, "camSCL")

periphSDA == EnumValue(boardInputs_e, "periphSDA")

periphSCL == EnumValue(boardInputs_e, "periphSCL")

battery == EnumValue(boardInputs_e, "battery")

analogX == EnumValue(boardInputs_e, "analogX")

analogY == EnumValue(boardInputs_e, "analogY")

tempPin == EnumValue(boardInputs_e, "tempPin")

wiiClockGen == EnumValue(boardInputs_e, "wiiClockGen")

boardInputsCount == EnumValue(boardInputs_e, "boardInputsCount")

\* the two sentinels of boardInputs_e, which precede btnTrigger = 0
Sentinels == {"unavailable", "btnUnmapped"}

(* Boolean/toggle settings                                                 *)
\* the toggles with an initializer that skips a value
boolTypes_e_gap ==
    << E("customPins", 0), A("rumble"), A("solenoid"), A("autofire"),
       A("simplePause"), A("holdToPause"), A("commonAnode"),
       A("lowButtonsMode"), E("rumbleFF", 9), A("invertStaticPixels"),
       A("boolTypesCount") >>

boolTypes_e ==
    << E("customPins", 0), A("rumble"), A("solenoid"), A("autofire"),
       A("simplePause"), A("holdToPause"), A("commonAnode"),
       A("lowButtonsMode"), A("rumbleFF"), A("invertStaticPixels"),
       A("boolTypesCount") >>

(* Variable settings                                                       *)
settingsTypes_e ==
    << E("rumbleStrength", 0), A("rumbleInterval"), A("solenoidOnLength"),
       A("solenoidOffLength"), A("solenoidHoldLength"),
       A("holdToPauseLength"), A("customLEDcount"), A("customLEDstatic"),
       A("customLEDcolor1"), A("customLEDcolor2"), A("customLEDcolor3"),
       A("tempWarning"), A("tempShutdown"), A("settingsTypesCount") >>

(* Profile data                                                            *)
profSyncTypes_e ==
    << E("profTopOffset", 0), A("profBottomOffset"), A("profLeftOffset"),
       A("profRightOffset"), A("profTLled"), A("profTRled"), A("profAdjX"),
       A("profAdjY"), A("profIrSens"), A("profRunMode"), A("profIrLayout"),
       A("profColor"), A("profDataTypes"), E("profName", 250) >>

\* the four enumerations that end in a count marker
CountedEnums ==
    << [enum |-> "boardInputs_e",   decl |-> boardInputs_e,   marker |-> "boardInputsCount"],
       [enum |-> "boolTypes_e",     decl |-> boolTypes_e,     marker |-> "boolTypesCount"],
       [enum |-> "settingsTypes_e", decl |-> settingsTypes_e, marker |-> "settingsTypesCount"],
       [enum |-> "profSyncTypes_e", decl |-> profSyncTypes_e, marker |-> "profDataTypes"] >>

-----------------------------------------------------------------------------
(* Shared serial control/signal codes, in the groups the header's comments *)
(* give them.                                                              *)

\* Docking commands
dockingCommands == << E("sDock1", 1), A("sDock2") >>

\* Mode toggles from app
modeToggles ==
    << E("sIRTest", 5), A("sCaliProfile"), A("sCaliStart"), A("sCaliSens"),
       A("sCaliLayout") >>

\* the test signals started at 5, on top of the mode toggles
testSignals_collide ==
    << E("sTestSolenoid", 5), A("sTestRumble"), A("sTestLEDR"),
       A("sTestLEDG"), A("sTestLEDB") >>

\* Test signals from app
testSignals ==
    << E("sTestSolenoid", 15), A("sTestRumble"), A("sTestLEDR"),
       A("sTestLEDG"), A("sTestLEDB") >>

\* Error types from board (with sError)
errorTypes == << E("sErrCam", 128), A("sErrPeriphGeneric") >>

\* Status updates from board
statusUpdates ==
    << E("sBtnPressed", 144), A("sBtnReleased"), A("sAnalogPosUpd"),
       A("sTemperatureUpd"), A("sCaliStageUpd"), A("sCaliInfoUpd"),
       A("sTestCoords"), A("sCurrentProf") >>

\* the commit codes started at 0xA0 instead of 0xAA
commitCodes_moved ==
    << E("sCommitStart", 160), A("sCommitToggles"), A("sCommitPins"),
       A("sCommitSettings"), A("sCommitProfile"), A("sCommitID"),
       A("sCommitPeriphs") >>

\* Push settings to board
commitCodes ==
    << E("sCommitStart", 170), A("sCommitToggles"), A("sCommitPins"),
       A("sCommitSettings"), A("sCommitProfile"), A("sCommitID"),
       A("sCommitPeriphs") >>

\* Grab settings from board
getCodes ==
    << E("sGetPins", 200), A("sGetToggles"), A("sGetSettings"),
       A("sGetProfile"), A("sGetPeriphs") >>

\* sError, sSave, sClearFlash, serialTerminator
controlCodes ==
    << E("sError", 250), E("sSave", 252), E("sClearFlash", 253),
       E("serialTerminator", 254) >>

serialCmdTypes_e ==
    dockingCommands \o modeToggles \o testSignals \o errorTypes
        \o statusUpdates \o commitCodes \o getCodes \o controlCodes

\* group and sender of each block, as its comment in the header states it
serialCmdGroups ==
    << [group |-> "docking",      sender |-> "app",    block |-> dockingCommands],
       [group |-> "mode-toggle",  sender |-> "app",    block |-> modeToggles],
       [group |-> "test-trigger", sender |-> "app",    block |-> testSignals],
       [group |-> "error",        sender |-> "board",  block |-> errorTypes],
       [group |-> "status",       sender |-> "board",  block |-> statusUpdates],
       [group |-> "commit",       sender |-> "app",    block |-> commitCodes],
       [group |-> "get",          sender |-> "app",    block |-> getCodes],
       [group |-> "control",      sender |-> "either", block |-> controlCodes] >>

GroupRecOf(n) ==
    serialCmdGroups[CHOOSE g \in 1..Len(serialCmdGroups) :
                        n \in EnumNames(serialCmdGroups[g].block)]

GroupOf(n) == GroupRecOf(n).group

SenderOf(n) == GroupRecOf(n).sender

SerialValue(n) == EnumValue(serialCmdTypes_e, n)

-----------------------------------------------------------------------------
(* Map of default pin mappings for each supported board.                   *)
(* Key = board, the sequence maps to RP2040 GPIO (index 1 = GPIO 0) where  *)
(* each value is a FW function (or unmapped).                              *)

\* number of GPIOs of the RP2040, the length of every board's tables
RP2040GpioCount == 30

\* the Pico mapping with GPIO 22 marked unavailable, its layout cell kept
preset_rpipico_gpio22Hidden ==
    <<
       btnGunA, btnGunB, btnGunC, btnStart, btnSelect,
       btnHome, btnGunUp, btnGunDown, btnGunLeft, btnGunRight,
       ledR, ledG, ledB, btnPump, btnPedal,
       btnTrigger, solenoidPin, rumblePin, periphSDA, periphSCL,
       camSDA, camSCL, unavailable, unavailable, unavailable,
       unavailable, btnUnmapped, btnUnmapped, tempPin, unavailable >>

preset_rpipico ==
    <<
       btnGunA, btnGunB, btnGunC, btnStart, btnSelect,
       btnHome, btnGunUp, btnGunDown, btnGunLeft, btnGunRight,
       ledR, ledG, ledB, btnPump, btnPedal,
       btnTrigger, solenoidPin, rumblePin, periphSDA, periphSCL,
       camSDA, camSCL, btnUnmapped, unavailable, unavailable,
       unavailable, btnUnmapped, btnUnmapped, tempPin, unavailable >>

preset_rpipicow ==
    <<
       btnGunA, btnGunB, btnGunC, btnStart, btnSelect,
       btnHome, btnGunUp, btnGunDown, btnGunLeft, btnGunRight,
       ledR, ledG, ledB, btnPump, btnPedal,
       btnTrigger, solenoidPin, rumblePin, periphSDA, periphSCL,
       camSDA, camSCL, btnUnmapped, unavailable, unavailable,
       unavailable, btnUnmapped, btnUnmapped, tempPin, unavailable >>

preset_adafruitItsyRP2040 ==
    <<
       btnUnmapped, btnUnmapped, camSDA, camSCL, btnPedal,
       btnUnmapped, btnTrigger, btnGunDown, btnGunLeft, btnGunUp,
       btnGunRight, btnGunC, btnUnmapped, unavailable, unavailable,
       unavailable, unavailable, unavailable, btnUnmapped, btnUnmapped,
       btnUnmapped, unavailable, unavailable, unavailable, rumblePin,
       solenoidPin, btnGunB, btnGunA, btnStart, btnSelect >>

preset_adafruitKB2040 ==
    <<
       btnUnmapped, btnUnmapped, camSDA, camSCL, btnGunB,
       rumblePin, btnGunC, solenoidPin, btnSelect, btnStart,
       btnGunRight, unavailable, unavailable, unavailable, unavailable,
       unavailable, unavailable, unavailable, btnGunUp, btnGunLeft,
       btnGunDown, unavailable, unavailable, unavailable, unavailable,
       unavailable, tempPin, btnHome, btnTrigger, btnGunA >>

preset_arduinoNanoRP2040 ==
    <<
       btnTrigger, btnPedal, unavailable, unavailable, btnGunA,
       btnGunC, btnUnmapped, btnGunB, unavailable, unavailable,
       unavailable, unavailable, camSDA, camSCL, unavailable,
       btnUnmapped, btnUnmapped, btnUnmapped, btnUnmapped, btnUnmapped,
       btnUnmapped, btnUnmapped, unavailable, unavailable, unavailable,
       btnUnmapped, btnUnmapped, btnUnmapped, tempPin, btnUnmapped >>

\* the Waveshare Zero mapping with the entry of GPIO 16 left out
preset_waveshareZero_short ==
    <<
       btnTrigger, btnGunA, btnGunB, btnGunC, btnStart,
       btnSelect, btnUnmapped, btnUnmapped, btnUnmapped, btnUnmapped,
       btnUnmapped, btnUnmapped, btnUnmapped, btnUnmapped, camSDA,
       camSCL, btnUnmapped, btnUnmapped, btnUnmapped, btnUnmapped,
       btnUnmapped, btnUnmapped, btnUnmapped, btnUnmapped, btnUnmapped,
       btnUnmapped, btnUnmapped, btnUnmapped, tempPin >>

preset_waveshareZero ==
    <<
       btnTrigger, btnGunA, btnGunB, btnGunC, btnStart,
       btnSelect, btnUnmapped, btnUnmapped, btnUnmapped, btnUnmapped,
       btnUnmapped, btnUnmapped, btnUnmapped, btnUnmapped, camSDA,
       camSCL, unavailable, btnUnmapped, btnUnmapped, btnUnmapped,
       btnUnmapped, btnUnmapped, btnUnmapped, btnUnmapped, btnUnmapped,
       btnUnmapped, btnUnmapped, btnUnmapped, btnUnmapped, tempPin >>

boardsPresetsMap ==
    ("rpipico" :> preset_rpipico)
    @@ ("rpipicow" :> preset_rpipicow)
    @@ ("adafruitItsyRP2040" :> preset_adafruitItsyRP2040)
    @@ ("adafruitKB2040" :> preset_adafruitKB2040)
    @@ ("arduinoNanoRP2040" :> preset_arduinoNanoRP2040)
    @@ ("waveshareZero" :> preset_waveshareZero)

-----------------------------------------------------------------------------
(* Graphical placement of each pin: the grid a pin belongs to, added to    *)
(* its layout slot in that grid.                                           *)

posNothing == 0

\* the left grid one bit lower, inside the range of the slot numbers
posLeft_low == 512 \div 2

posLeft == 512

posRight == 1024

posMiddle == 2048

boardBoxPositions_e == <<posNothing, posLeft, posRight, posMiddle>>

\* "slot+posX" as the table entries are written: the slot added to the grid
encode(region, slot) == slot + region

box_rpipico ==
    <<
       encode(posLeft, 1), encode(posLeft, 2), encode(posLeft, 4), encode(posLeft, 5), encode(posLeft, 6),
       encode(posLeft, 7), encode(posLeft, 9), encode(posLeft, 10), encode(posLeft, 11), encode(posLeft, 12),
       encode(posLeft, 14), encode(posLeft, 15), encode(posLeft, 16), encode(posLeft, 17), encode(posLeft, 19),
       encode(posLeft, 20), encode(posRight, 20), encode(posRight, 19), encode(posRight, 17), encode(posRight, 16),
       encode(posRight, 15), encode(posRight, 14), encode(posRight, 12), posNothing, posNothing,
       posNothing, encode(posRight, 10), encode(posRight, 9), encode(posRight, 7), posNothing >>

box_rpipicow ==
    <<
       encode(posLeft, 1), encode(posLeft, 2), encode(posLeft, 4), encode(posLeft, 5), encode(posLeft, 6),
       encode(posLeft, 7), encode(posLeft, 9), encode(posLeft, 10), encode(posLeft, 11), encode(posLeft, 12),
       encode(posLeft, 14), encode(posLeft, 15), encode(posLeft, 16), encode(posLeft, 17), encode(posLeft, 19),
       encode(posLeft, 20), encode(posRight, 20), encode(posRight, 19), encode(posRight, 17), encode(posRight, 16),
       encode(posRight, 15), encode(posRight, 14), encode(posRight, 12), posNothing, posNothing,
       posNothing, encode(posRight, 10), encode(posRight, 9), encode(posRight, 7), posNothing >>

box_adafruitItsyRP2040 ==
    <<
       encode(posRight, 13), encode(posRight, 14), encode(posRight, 12), encode(posRight, 11), encode(posMiddle, 2),
       encode(posMiddle, 1), encode(posRight, 9), encode(posRight, 8), encode(posRight, 7), encode(posRight, 6),
       encode(posRight, 5), encode(posRight, 4), encode(posLeft, 14), posNothing, posNothing,
       posNothing, posNothing, posNothing, encode(posLeft, 11), encode(posLeft, 12),
       encode(posLeft, 13), posNothing, posNothing, posNothing, encode(posLeft, 9),
       encode(posLeft, 10), encode(posLeft, 5), encode(posLeft, 6), encode(posLeft, 7), encode(posLeft, 8) >>

\* the KB2040 layout with GPIO 18 put in the cell of GPIO 20
box_adafruitKB2040_sharedCell ==
    <<
       encode(posLeft, 3), encode(posLeft, 4), encode(posLeft, 7), encode(posLeft, 8), encode(posLeft, 9),
       encode(posLeft, 10), encode(posLeft, 11), encode(posLeft, 12), encode(posLeft, 13), encode(posLeft, 14),
       encode(posRight, 14), posNothing, posNothing, posNothing, posNothing,
       posNothing, posNothing, posNothing, encode(posRight, 12), encode(posRight, 13),
       encode(posRight, 12), posNothing, posNothing, posNothing, posNothing,
       posNothing, encode(posRight, 10), encode(posRight, 9), encode(posRight, 8), encode(posRight, 7) >>

box_adafruitKB2040 ==
    <<
       encode(posLeft, 3), encode(posLeft, 4), encode(posLeft, 7), encode(posLeft, 8), encode(posLeft, 9),
       encode(posLeft, 10), encode(posLeft, 11), encode(posLeft, 12), encode(posLeft, 13), encode(posLeft, 14),
       encode(posRight, 14), posNothing, posNothing, posNothing, posNothing,
       posNothing, posNothing, posNothing, encode(posRight, 11), encode(posRight, 13),
       encode(posRight, 12), posNothing, posNothing, posNothing, posNothing,
       posNothing, encode(posRight, 10), encode(posRight, 9), encode(posRight, 8), encode(posRight, 7) >>

box_arduinoNanoRP2040 ==
    <<
       encode(posRight, 18), encode(posRight, 17), posNothing, posNothing, encode(posRight, 4),
       encode(posRight, 6), encode(posLeft, 4), encode(posRight, 5), posNothing, posNothing,
       posNothing, posNothing, encode(posLeft, 11), encode(posLeft, 12), posNothing,
       encode(posRight, 13), encode(posRight, 12), encode(posRight, 11), encode(posRight, 10), encode(posRight, 9),
       encode(posRight, 8), encode(posRight, 7), posNothing, posNothing, posNothing,
       encode(posRight, 14), encode(posLeft, 7), encode(posLeft, 8), encode(posLeft, 9), encode(posLeft, 10) >>

box_waveshareZero ==
    <<
       encode(posRight, 2), encode(posRight, 3), encode(posRight, 4), encode(posRight, 5), encode(posRight, 6),
       encode(posRight, 7), encode(posRight, 8), encode(posRight, 9), encode(posRight, 10), encode(posRight, 11),
       encode(posMiddle, 3), encode(posMiddle, 2), encode(posLeft, 11), encode(posLeft, 10), encode(posLeft, 9),
       encode(posLeft, 8), posNothing, posNothing, posNothing, posNothing,
       posNothing, posNothing, posNothing, posNothing, posNothing,
       posNothing, encode(posLeft, 7), encode(posLeft, 6), encode(posLeft, 5), encode(posLeft, 4) >>

\* the generic layout numbering its first slot from zero
box_generic_slotZero ==
    <<
       encode(posLeft, 0), encode(posLeft, 2), encode(posLeft, 3), encode(posLeft, 4), encode(posLeft, 5),
       encode(posLeft, 6), encode(posLeft, 7), encode(posLeft, 8), encode(posLeft, 9), encode(posLeft, 10),
       encode(posLeft, 11), encode(posLeft, 12), encode(posLeft, 13), encode(posLeft, 14), encode(posLeft, 15),
       encode(posLeft, 16), encode(posRight, 16), encode(posRight, 15), encode(posRight, 14), encode(posRight, 13),
       encode(posRight, 12), encode(posRight, 11), encode(posRight, 10), encode(posRight, 9), encode(posRight, 8),
       encode(posRight, 7), encode(posRight, 6), encode(posRight, 5), encode(posRight, 4), encode(posRight, 3) >>

box_generic ==
    <<
       encode(posLeft, 1), encode(posLeft, 2), encode(posLeft, 3), encode(posLeft, 4), encode(posLeft, 5),
       encode(posLeft, 6), encode(posLeft, 7), encode(posLeft, 8), encode(posLeft, 9), encode(posLeft, 10),
       encode(posLeft, 11), encode(posLeft, 12), encode(posLeft, 13), encode(posLeft, 14), encode(posLeft, 15),
       encode(posLeft, 16), encode(posRight, 16), encode(posRight, 15), encode(posRight, 14), encode(posRight, 13),
       encode(posRight, 12), encode(posRight, 11), encode(posRight, 10), encode(posRight, 9), encode(posRight, 8),
       encode(posRight, 7), encode(posRight, 6), encode(posRight, 5), encode(posRight, 4), encode(posRight, 3) >>

boardsBoxPositions ==
    ("rpipico" :> box_rpipico)
    @@ ("rpipicow" :> box_rpipicow)
    @@ ("adafruitItsyRP2040" :> box_adafruitItsyRP2040)
    @@ ("adafruitKB2040" :> box_adafruitKB2040)
    @@ ("arduinoNanoRP2040" :> box_arduinoNanoRP2040)
    @@ ("waveshareZero" :> box_waveshareZero)
    @@ ("generic" :> box_generic)

-----------------------------------------------------------------------------
(* Alternative pin mappings: a multimap, here the sequence of its entries  *)
(* (key, label, pins) in the order the header lists them.                  *)

alt_rpipico_Test ==
    <<
       btnPump, btnPedal, btnUnmapped, btnUnmapped, btnUnmapped,
       btnUnmapped, btnUnmapped, btnUnmapped, btnUnmapped, btnUnmapped,
       btnUnmapped, btnUnmapped, btnUnmapped, btnUnmapped, btnUnmapped,
       btnUnmapped, btnUnmapped, btnUnmapped, btnUnmapped, btnUnmapped,
       btnUnmapped, btnUnmapped, btnUnmapped, unavailable, unavailable,
       unavailable, btnUnmapped, btnUnmapped, btnUnmapped, unavailable >>

alt_rpipico_Test_2 ==
    <<
       btnGunA, btnTrigger, btnUnmapped, btnUnmapped, btnUnmapped,
       btnUnmapped, btnUnmapped, btnUnmapped, btnUnmapped, btnUnmapped,
       btnUnmapped, btnUnmapped, btnUnmapped, btnUnmapped, btnUnmapped,
       btnUnmapped, btnUnmapped, btnUnmapped, btnUnmapped, btnUnmapped,
       btnUnmapped, btnUnmapped, btnUnmapped, unavailable, unavailable,
       unavailable, btnUnmapped, btnUnmapped, btnUnmapped, unavailable >>

alt_adafruitItsyRP2040_SAMCO_2_0 ==
    <<
       btnUnmapped, btnUnmapped, camSDA, camSCL, btnPedal,
       btnUnmapped, btnTrigger, btnGunDown, btnGunLeft, btnGunUp,
       btnGunRight, btnHome, btnUnmapped, unavailable, unavailable,
       unavailable, unavailable, unavailable, btnUnmapped, btnUnmapped,
       btnUnmapped, unavailable, unavailable, unavailable, rumblePin,
       solenoidPin, btnGunB, btnGunA, btnStart, btnSelect >>

\* SAMCO 1.1 with btnTrigger on GPIO 4 as well as on GPIO 10
alt_SAMCO_1_1_twoTriggers ==
    <<
       btnUnmapped, btnUnmapped, camSDA, camSCL, btnTrigger,
       btnUnmapped, btnGunA, btnGunB, rumblePin, btnHome,
       btnTrigger, btnUnmapped, btnUnmapped, unavailable, unavailable,
       unavailable, unavailable, unavailable, btnUnmapped, btnUnmapped,
       btnUnmapped, unavailable, unavailable, unavailable, btnUnmapped,
       btnUnmapped, btnUnmapped, btnPedal, btnUnmapped, btnUnmapped >>

alt_adafruitItsyRP2040_SAMCO_1_1 ==
    <<
       btnUnmapped, btnUnmapped, camSDA, camSCL, btnUnmapped,
       btnUnmapped, btnGunA, btnGunB, rumblePin, btnHome,
       btnTrigger, btnUnmapped, btnUnmapped, unavailable, unavailable,
       unavailable, unavailable, unavailable, btnUnmapped, btnUnmapped,
       btnUnmapped, unavailable, unavailable, unavailable, btnUnmapped,
       btnUnmapped, btnUnmapped, btnPedal, btnUnmapped, btnUnmapped >>

boardsAltPresets ==
    << [key |-> "rpipico", name |-> "Test", pin |-> alt_rpipico_Test],
       [key |-> "rpipico", name |-> "Test 2", pin |-> alt_rpipico_Test_2],
       [key |-> "adafruitItsyRP2040", name |-> "SAMCO 2.0", pin |-> alt_adafruitItsyRP2040_SAMCO_2_0],
       [key |-> "adafruitItsyRP2040", name |-> "SAMCO 1.1", pin |-> alt_adafruitItsyRP2040_SAMCO_1_1] >>

-----------------------------------------------------------------------------
(* Application side only (OF_APP): labels and display names.               *)

\* the label table without the entry of btnPedal2
valuesNameList_short ==
    <<
       "Unmapped", "Trigger", "Button A",
       "Button B", "Button C", "Start",
       "Select", "D-Pad Up", "D-Pad Down",
       "D-Pad Left", "D-Pad Right", "Pedal",
       "Pump Action", "Home Button", "Rumble Signal",
       "Solenoid Signal", "Rumble Switch", "Solenoid Switch",
       "Autofire Switch", "External NeoPixel", "RGB LED Red",
       "RGB LED Green", "RGB LED Blue", "Camera SDA",
       "Camera SCL", "Peripherals SDA", "Peripherals SCL",
       "Battery Sensor (Unused)", "Analog Stick X", "Analog Stick Y",
       "Temp Sensor", "Wii Cam Clock" >>

\* Used by pinBoxes, matching boardInputs_e (except "unavailable");
\* index 1 here is index 0 of the array
valuesNameList ==
    <<
       "Unmapped", "Trigger", "Button A",
       "Button B", "Button C", "Start",
       "Select", "D-Pad Up", "D-Pad Down",
       "D-Pad Left", "D-Pad Right", "Pedal",
       "Alt Pedal", "Pump Action", "Home Button",
       "Rumble Signal", "Solenoid Signal", "Rumble Switch",
       "Solenoid Switch", "Autofire Switch", "External NeoPixel",
       "RGB LED Red", "RGB LED Green", "RGB LED Blue",
       "Camera SDA", "Camera SCL", "Peripherals SDA",
       "Peripherals SCL", "Battery Sensor (Unused)", "Analog Stick X",
       "Analog Stick Y", "Temp Sensor", "Wii Cam Clock" >>

\* the display names without the entry of the Waveshare Zero
boardNames_noWaveshare ==
    ("rpipico" :> "Raspberry Pi Pico (RP2040)")
    @@ ("rpipicow" :> "Raspberry Pi Pico W (RP2040)")
    @@ ("adafruitItsyRP2040" :> "Adafruit ItsyBitsy RP2040")
    @@ ("adafruitKB2040" :> "Adafruit Keeboar KB2040")
    @@ ("arduinoNanoRP2040" :> "Arduino Nano Connect RP2040")
    @@ ("generic" :> "Unknown Board")

boardNames ==
    ("rpipico" :> "Raspberry Pi Pico (RP2040)")
    @@ ("rpipicow" :> "Raspberry Pi Pico W (RP2040)")
    @@ ("adafruitItsyRP2040" :> "Adafruit ItsyBitsy RP2040")
    @@ ("adafruitKB2040" :> "Adafruit Keeboar KB2040")
    @@ ("arduinoNanoRP2040" :> "Arduino Nano Connect RP2040")
    @@ ("waveshareZero" :> "Waveshare Zero RP2040")
    @@ ("generic" :> "Unknown Board")

-----------------------------------------------------------------------------
(* Board identifiers                                                       *)

\* the tokens OPENFIRE_BOARD can expand to; "generic" when no board macro
\* is defined
OPENFIRE_BOARD ==
    { "adafruitItsyRP2040", "adafruitKB2040", "arduinoNanoRP2040",
      "waveshareZero", "vccgndYD", "rpipico", "rpipicow", "generic" }

\* tokens a consumer may present: the compiled-in ones and a foreign one
BoardTokens == OPENFIRE_BOARD \cup {"unknownBoard"}

\* the keys of the four tables
RegistryKeys ==
    DOMAIN boardsPresetsMap \cup DOMAIN boardsBoxPositions
        \cup DOMAIN boardNames
        \cup {boardsAltPresets[k].key : k \in 1..Len(boardsAltPresets)}

-----------------------------------------------------------------------------
(* Queries                                                                 *)

\* std::unordered_map::find: the element under the key, or end()
find(map, key) ==
    IF key \in DOMAIN map
    THEN [found |-> TRUE, value |-> map[key]]
    ELSE [found |-> FALSE, value |-> <<>>]

\* the default mapping of a board, falling back to the entry of "generic"
lookupDefault(b) ==
    LET r == find(boardsPresetsMap, b)
    IN  IF r.found THEN r ELSE find(boardsPresetsMap, "generic")

\* std::unordered_multimap::equal_range: the entries under the key
lookupAlternates(b) ==
    SelectSeq(boardsAltPresets, LAMBDA a : a.key = b)

\* the largest region constant not exceeding the packed value, and the rest
decode(v) ==
    LET regions == {boardBoxPositions_e[k] : k \in 1..Len(boardBoxPositions_e)}
        r == CHOOSE c \in regions :
                 c <= v /\ \A d \in regions : d <= v => d <= c
    IN  <<r, v - r>>

\* the three least significant bits of the second byte of a packed value
gridBits(v) == (v \div 256) % 8

\* the partition of the byte values among the purposes of the protocol
ClassRanges ==
    << [class |-> "docking",      bytes |-> 1..4],
       [class |-> "mode-toggle",  bytes |-> 5..9],
       [class |-> "test-trigger", bytes |-> 15..19],
       [class |-> "error",        bytes |-> 128..143],
       [class |-> "status",       bytes |-> 144..159],
       [class |-> "commit",       bytes |-> 170..181],
       [class |-> "get",          bytes |-> 200..210],
       [class |-> "control",      bytes |-> {250, 252, 253, 254}] >>

RECURSIVE classifyFrom(_, _)
classifyFrom(b, k) ==
    IF k > Len(ClassRanges) THEN "unassigned"
    ELSE IF b \in ClassRanges[k].bytes THEN ClassRanges[k].class
    ELSE classifyFrom(b, k + 1)

classify(b) == classifyFrom(b, 1)

\* the serial code whose value is the byte, "" when there is none
CodeOfByte(b) ==
    LET ns == {n \in EnumNames(serialCmdTypes_e) : SerialValue(n) = b}
    IN  IF ns = {} THEN "" ELSE CHOOSE n \in ns : TRUE

\* the enumerator of boardInputs_e that has the value
InputOfValue(f) ==
    CHOOSE n \in EnumNames(boardInputs_e) : EnumValue(boardInputs_e, n) = f

\* what a read past the end of valuesNameList may produce
StrayLabels == {"", "Unmapped", "Wii Cam Clock"}

\* valuesNameList[i] of the array, i counted from zero
labelAt(i) ==
    IF i + 1 \in 1..Len(valuesNameList)
    THEN {valuesNameList[i + 1]}
    ELSE StrayLabels

-----------------------------------------------------------------------------
(* State: the query in progress and its answer                             *)

VARIABLES
    op,          \* the query made last
    board,       \* registry: the board identifier presented
    found,       \* registry: whether the lookup produced an entry
    mapping,     \* registry: the pin mapping returned
    layout,      \* registry: the layout vector returned
    alternates,  \* registry: the alternate presets returned
    name,        \* registry: the display name of the board
    gpio,        \* layout: GPIO index read
    region,      \* codec: region given to encode
    slot,        \* codec: slot given to encode
    packed,      \* codec: packed layout position
    decoded,     \* codec: <<region, slot>> recovered by decode
    bits,        \* codec: the grid bits read from the packed position
    code,        \* serial: name of the code
    byte,        \* serial: its value
    code2,       \* serial: name of a second code
    byte2,       \* serial: its value
    cls,         \* serial: class of the byte
    sender,      \* serial: who puts the byte on the wire
    enum,        \* catalog: enumeration consulted
    field,       \* catalog: enumerator read
    index,       \* catalog: its value
    count,       \* catalog: value of the enumeration's count marker
    label        \* catalog: label shown for the pin function

vars == << op, board, found, mapping, layout, alternates, name, gpio, region,
           slot, packed, decoded, bits, code, byte, code2, byte2, cls, sender,
           enum, field, index, count, label >>

registryVars == << board, found, mapping, layout, alternates, name >>

codecVars == << gpio, region, slot, packed, decoded, bits >>

serialVars == << code, byte, code2, byte2, cls, sender >>

catalogVars == << enum, field, index, count, label >>

RegistryIdle ==
    /\ board' = "" /\ found' = FALSE /\ mapping' = <<>>
    /\ layout' = <<>> /\ alternates' = <<>> /\ name' = ""

CodecIdle ==
    /\ gpio' = 0 /\ region' = 0 /\ slot' = 0 /\ packed' = 0
    /\ decoded' = <<0, 0>> /\ bits' = 0

SerialIdle ==
    /\ code' = "" /\ byte' = 0 /\ code2' = "" /\ byte2' = 0
    /\ cls' = "" /\ sender' = ""

CatalogIdle ==
    /\ enum' = "" /\ field' = "" /\ index' = 0 /\ count' = 0
    /\ label' = ""

Init ==
    /\ op = "idle"
    /\ board = "" /\ found = FALSE /\ mapping = <<>>
    /\ layout = <<>> /\ alternates = <<>> /\ name = ""
    /\ gpio = 0 /\ region = 0 /\ slot = 0 /\ packed = 0
    /\ decoded = <<0, 0>> /\ bits = 0
    /\ code = "" /\ byte = 0 /\ code2 = "" /\ byte2 = 0
    /\ cls = "" /\ sender = ""
    /\ enum = "" /\ field = "" /\ index = 0 /\ count = 0
    /\ label = ""

-----------------------------------------------------------------------------
(* Board preset registry                                                   *)

\* the application looks up the default mapping of the board it is told
LookupDefault(b) ==
    LET r == lookupDefault(b)
    IN  /\ op = "idle"
        /\ op' = "lookupDefault"
        /\ board' = b
        /\ found' = r.found
        /\ mapping' = r.value
        /\ layout' = <<>>
        /\ alternates' = <<>>
        /\ name' = ""
        /\ CodecIdle /\ SerialIdle /\ CatalogIdle

\* ... and then the layout of the same board
LookupLayout ==
    /\ op = "lookupDefault"
    /\ board \in DOMAIN boardsBoxPositions
    /\ op' = "lookupLayout"
    /\ layout' = boardsBoxPositions[board]
    /\ UNCHANGED << board, found, mapping, alternates, name >>
    /\ UNCHANGED << codecVars, serialVars, catalogVars >>

\* the application lists the alternate presets of a board
LookupAlternates(b) ==
    /\ op = "idle"
    /\ op' = "lookupAlternates"
    /\ board' = b
    /\ alternates' = lookupAlternates(b)
    /\ found' = (Len(lookupAlternates(b)) > 0)
    /\ mapping' = <<>>
    /\ layout' = <<>>
    /\ name' = ""
    /\ CodecIdle /\ SerialIdle /\ CatalogIdle

\* the application gathers all it holds on a board: default mapping,
\* layout, display name and alternate presets, each under the same key
DescribeBoard(b) ==
    /\ op = "idle"
    /\ op' = "describeBoard"
    /\ board' = b
    /\ found' = find(boardsPresetsMap, b).found
    /\ mapping' = find(boardsPresetsMap, b).value
    /\ layout' = find(boardsBoxPositions, b).value
    /\ name' = IF find(boardNames, b).found THEN find(boardNames, b).value
               ELSE ""
    /\ alternates' = lookupAlternates(b)
    /\ CodecIdle /\ SerialIdle /\ CatalogIdle

-----------------------------------------------------------------------------
(* Layout position codec                                                   *)

\* pack a slot of a grid; callers keep the slot below 512
Encode(r, s) ==
    /\ op = "idle"
    /\ op' = "encode"
    /\ region' = r
    /\ slot' = s
    /\ packed' = encode(r, s)
    /\ decoded' = <<0, 0>>
    /\ gpio' = 0
    /\ bits' = 0
    /\ RegistryIdle /\ SerialIdle /\ CatalogIdle

\* unpack what Encode produced
Decode ==
    /\ op = "encode"
    /\ op' = "decode"
    /\ decoded' = decode(packed)
    /\ UNCHANGED << gpio, region, slot, packed, bits >>
    /\ UNCHANGED << registryVars, serialVars, catalogVars >>

\* read the grid of what Encode produced off the bits of its second byte
ReadGridBits ==
    /\ op = "encode"
    /\ op' = "gridBits"
    /\ bits' = gridBits(packed)
    /\ UNCHANGED << gpio, region, slot, packed, decoded >>
    /\ UNCHANGED << registryVars, serialVars, catalogVars >>

\* unpack the layout entry of one GPIO of a board and pack it again
DecodeLayout(b, i) ==
    LET d == decode(boardsBoxPositions[b][i + 1])
    IN  /\ op = "idle"
        /\ op' = "decodeLayout"
        /\ board' = b
        /\ layout' = boardsBoxPositions[b]
        /\ gpio' = i
        /\ decoded' = d
        /\ region' = d[1]
        /\ slot' = d[2]
        /\ packed' = encode(d[1], d[2])
        /\ found' = TRUE
        /\ mapping' = <<>>
        /\ alternates' = <<>>
        /\ name' = ""
        /\ bits' = 0
        /\ SerialIdle /\ CatalogIdle

-----------------------------------------------------------------------------
(* Serial command codes                                                    *)

\* two codes of serialCmdTypes_e are told apart by their values
CompareCodes(n, m) ==
    /\ op = "idle"
    /\ op' = "compareCodes"
    /\ code' = n
    /\ byte' = SerialValue(n)
    /\ code2' = m
    /\ byte2' = SerialValue(m)
    /\ cls' = ""
    /\ sender' = ""
    /\ RegistryIdle /\ CodecIdle /\ CatalogIdle

\* a byte read from the wire is classified
Classify(b) ==
    /\ op = "idle"
    /\ op' = "classify"
    /\ byte' = b
    /\ code' = CodeOfByte(b)
    /\ cls' = classify(b)
    /\ code2' = ""
    /\ byte2' = 0
    /\ sender' = ""
    /\ RegistryIdle /\ CodecIdle /\ CatalogIdle

\* the app or the board puts one of its codes on the wire, as one byte
Send(s, n) ==
    /\ op = "idle"
    /\ SenderOf(n) \in {s, "either"}
    /\ op' = "send"
    /\ sender' = s
    /\ code' = n
    /\ byte' = SerialValue(n) % 256
    /\ cls' = ""
    /\ code2' = ""
    /\ byte2' = 0
    /\ RegistryIdle /\ CodecIdle /\ CatalogIdle

-----------------------------------------------------------------------------
(* Positional indices                                                      *)

\* an enumerator of a counted enumeration is used as an index
ReadField(e, k) ==
    /\ op = "idle"
    /\ op' = "readField"
    /\ enum' = CountedEnums[e].enum
    /\ field' = CountedEnums[e].decl[k].name
    /\ index' = ValueAt(CountedEnums[e].decl, k)
    /\ count' = EnumValue(CountedEnums[e].decl, CountedEnums[e].marker)
    /\ label' = ""
    /\ RegistryIdle /\ CodecIdle /\ SerialIdle

\* a pin box shows the label of a pin function: valuesNameList[f + 1]
ReadLabel(f) ==
    /\ op = "idle"
    /\ op' = "readLabel"
    /\ enum' = "boardInputs_e"
    /\ field' = InputOfValue(f)
    /\ index' = f
    /\ count' = boardInputsCount
    /\ label' \in labelAt(f + 1)
    /\ RegistryIdle /\ CodecIdle /\ SerialIdle

-----------------------------------------------------------------------------

\* the consumer is done with the answer
Finish ==
    /\ op # "idle"
    /\ op' = "idle"
    /\ RegistryIdle /\ CodecIdle /\ SerialIdle /\ CatalogIdle

Next ==
    \/ \E b \in BoardTokens : LookupDefault(b)
    \/ LookupLayout
    \/ \E b \in BoardTokens : LookupAlternates(b)
    \/ \E b \in BoardTokens \cup RegistryKeys : DescribeBoard(b)
    \/ \E r \in {posNothing, posLeft, posRight, posMiddle}, s \in 0..511 :
           Encode(r, s)
    \/ Decode
    \/ ReadGridBits
    \/ \E b \in DOMAIN boardsBoxPositions, i \in 0..(RP2040GpioCount - 1) :
           DecodeLayout(b, i)
    \/ \E n, m \in EnumNames(serialCmdTypes_e) : CompareCodes(n, m)
    \/ \E b \in 0..255 : Classify(b)
    \/ \E s \in {"app", "board"}, n \in EnumNames(serialCmdTypes_e) :
           Send(s, n)
    \/ \E e \in 1..Len(CountedEnums) :
           \E k \in 1..Len(CountedEnums[e].decl) : ReadField(e, k)
    \/ \E f \in btnUnmapped..(boardInputsCount - 1) : ReadLabel(f)
    \/ Finish

Spec == Init /\ [][Next]_vars

-----------------------------------------------------------------------------
(* Properties                                                              *)

NonSentinel(f) == f >= btnTrigger /\ f <= wiiClockGen

\* no non-sentinel function is assigned to two GPIOs of the mapping
NoDuplicateFunction(m) ==
    \A i, j \in 1..Len(m) : (i # j /\ m[i] = m[j]) => ~NonSentinel(m[i])

\* the mapping has one entry per GPIO, each a value of boardInputs_e
WellFormedMapping(m) ==
    /\ Len(m) = RP2040GpioCount
    /\ \A i \in 1..Len(m) : m[i] \in unavailable..(boardInputsCount - 1)

\* C1: lookupDefault never fails: a key of boardsPresetsMap yields its own
\* mapping, every other identifier ("generic" included) yields the mapping
\* registered under "generic" in boardsPresetsMap.
C1_LookupDefaultNeverFails ==
    op = "lookupDefault" =>
        /\ found
        /\ board \in DOMAIN boardsPresetsMap =>
               mapping = boardsPresetsMap[board]
        /\ board \notin DOMAIN boardsPresetsMap =>
               /\ "generic" \in DOMAIN boardsPresetsMap
               /\ mapping = boardsPresetsMap["generic"]

\* C2: in every default and every alternate mapping each non-sentinel
\* function is assigned to at most one GPIO; only unavailable and
\* btnUnmapped repeat.
C2_NoDuplicateFunctions ==
    /\ (op \in {"lookupDefault", "lookupLayout"} /\ found) =>
           NoDuplicateFunction(mapping)
    /\ op = "lookupAlternates" =>
           \A k \in 1..Len(alternates) : NoDuplicateFunction(alternates[k].pin)

C2_Witness ==
    /\ op = "lookupAlternates"
    /\ board = "adafruitItsyRP2040"
    /\ Len(alternates) = 2
    /\ \E k \in 1..Len(alternates) :
           \E i, j \in 1..Len(alternates[k].pin) :
               /\ i # j
               /\ alternates[k].pin[i] = btnUnmapped
               /\ alternates[k].pin[j] = btnUnmapped
               /\ \E h \in 1..Len(alternates[k].pin) :
                      alternates[k].pin[h] = btnTrigger

\* C3: the default mapping and every alternate mapping of a board have
\* exactly as many entries as the board has GPIOs (30), each entry a value
\* in unavailable .. boardInputsCount-1.
C3_MappingShape ==
    /\ (op \in {"lookupDefault", "lookupLayout"} /\ found) =>
           (Len(mapping) = 30 /\ WellFormedMapping(mapping))
    /\ op = "lookupAlternates" =>
           \A k \in 1..Len(alternates) :
               (Len(alternates[k].pin) = 30
                   /\ WellFormedMapping(alternates[k].pin))

C3_Witness ==
    /\ op = "lookupDefault"
    /\ found
    /\ board = "waveshareZero"
    /\ Len(mapping) = 30
    /\ mapping[30] = tempPin
    /\ mapping[17] = unavailable

\* C4: decode(encode(region, slot)) = (region, slot) for each of the four
\* regions and every slot below 512; encode(Left, 7) = 519 and
\* decode(519) = (Left, 7).
C4_RoundTrip ==
    /\ op = "decode" => decoded = <<region, slot>>
    /\ (op \in {"encode", "decode"} /\ region = 512 /\ slot = 7) =>
           packed = 519
    /\ (op = "decode" /\ packed = 519) => decoded = <<512, 7>>

C4_Witness ==
    /\ op = "decode"
    /\ region = posLeft
    /\ slot = 511
    /\ packed = 1023
    /\ decoded = <<512, 511>>

\* C5: the values of the serial command codes are pairwise distinct, each
\* fits in one unsigned byte and none lies in 33..127.
C5_CodesDistinct ==
    op = "compareCodes" =>
        /\ code # code2 => byte # byte2
        /\ byte \in 0..255
        /\ byte \notin 33..127

C5_Witness ==
    /\ op = "compareCodes"
    /\ code = "sGetPeriphs"
    /\ code2 = "serialTerminator"
    /\ byte = 204
    /\ byte2 = 254

\* the classes whose range holds the byte; "unassigned" when none does
ClassesOf(b) ==
    LET cs == {ClassRanges[k].class :
                   k \in {h \in 1..Len(ClassRanges) : b \in ClassRanges[h].bytes}}
    IN  IF cs = {} THEN {"unassigned"} ELSE cs

\* C6: the ranges of the protocol give every byte exactly one class, and
\* every defined code the class of its group in serialCmdTypes_e; 0xAA is
\* sCommitStart and a commit, 0xC8 is sGetPins and a get.
C6_Classification ==
    op = "classify" =>
        /\ ClassesOf(byte) = {cls}
        /\ \A n \in EnumNames(serialCmdTypes_e) :
               SerialValue(n) = byte => cls = GroupOf(n)
        /\ byte = 170 => (cls = "commit" /\ code = "sCommitStart")
        /\ byte = 200 => (cls = "get" /\ code = "sGetPins")

C6_Witness ==
    /\ op = "classify"
    /\ byte = 176
    /\ code = "sCommitPeriphs"
    /\ cls = "commit"

\* C7: for every board with a default mapping and a layout, a GPIO whose
\* default function is unavailable has layout entry posNothing (0).
C7_UnavailableIsNothing ==
    (op = "lookupLayout" /\ found) =>
        \A i \in 1..Len(mapping) :
            mapping[i] = unavailable =>
                (i <= Len(layout) /\ layout[i] = 0 /\ layout[i] = posNothing)

C7_Witness ==
    /\ op = "lookupLayout"
    /\ found
    /\ board = "adafruitKB2040"
    /\ mapping[12] = unavailable
    /\ layout[12] = posNothing
    /\ mapping[11] # unavailable
    /\ layout[11] # posNothing

\* C8: every layout entry is posNothing (0) or Left, Right or Middle plus a
\* slot s with 1 <= s < 512, so decoding it and encoding the result gives
\* the entry back.
C8_LayoutEntries ==
    op = "decodeLayout" =>
        /\ \/ layout[gpio + 1] = 0
           \/ /\ decoded[1] \in {512, 1024, 2048}
              /\ decoded[2] >= 1
              /\ decoded[2] < 512
        /\ decoded[1] \in {0, 512, 1024, 2048}
        /\ packed = layout[gpio + 1]

C8_Witness ==
    /\ op = "decodeLayout"
    /\ board = "adafruitItsyRP2040"
    /\ gpio = 4
    /\ layout[gpio + 1] = 2050
    /\ decoded = <<posMiddle, 2>>
    /\ packed = 2050

\* C9: direction is readable from the byte: codes the board sends (errors,
\* status) are 128 or above, every code of 128 or above is one the board
\* sends, and codes the app sends (docking, mode toggles, test triggers,
\* commits, gets) are in 0..32.
C9_DirectionFromByte ==
    op = "send" =>
        /\ GroupOf(code) \in {"error", "status"} => byte >= 128
        /\ byte >= 128 => SenderOf(code) \in {"board", "either"}
        /\ GroupOf(code) \in {"docking", "mode-toggle", "test-trigger",
                              "commit", "get"} => byte \in 0..32

\* the enumerators of the consulted enumeration listed before its marker
BeforeMarker(e) ==
    LET d == CountedEnums[e].decl
    IN  {d[k].name : k \in 1..(IndexOf(d, CountedEnums[e].marker) - 1)}

EnumIndex(n) == CHOOSE e \in 1..Len(CountedEnums) : CountedEnums[e].enum = n

\* the enumerators in the set take the values 0 .. count-1, each once
Dense(e, names) ==
    LET d == CountedEnums[e].decl
        c == EnumValue(d, CountedEnums[e].marker)
    IN  /\ \A n \in names : EnumValue(d, n) \in 0..(c - 1)
        /\ \A n, m \in names : n # m => EnumValue(d, n) # EnumValue(d, m)
        /\ \A v \in 0..(c - 1) : \E n \in names : EnumValue(d, n) = v
        /\ c = Cardinality(names)

\* C10 as stated: in boardInputs_e, profSyncTypes_e, settingsTypes_e and
\* boolTypes_e the enumerators listed before the count marker take exactly
\* the values 0 .. count-1, each once, and the marker is their number.
C10_AllBeforeMarkerDense ==
    op = "readField" =>
        /\ field \in BeforeMarker(EnumIndex(enum)) => index \in 0..(count - 1)
        /\ Dense(EnumIndex(enum), BeforeMarker(EnumIndex(enum)))

\* C10 amended: the same for the enumerators before the marker other than
\* the two sentinels unavailable and btnUnmapped of boardInputs_e.
C10_NonSentinelDense ==
    op = "readField" =>
        /\ field \in BeforeMarker(EnumIndex(enum)) \ Sentinels =>
               index \in 0..(count - 1)
        /\ Dense(EnumIndex(enum), BeforeMarker(EnumIndex(enum)) \ Sentinels)

C10_Witness ==
    /\ op = "readField"
    /\ enum = "boardInputs_e"
    /\ field = "wiiClockGen"
    /\ index = 31
    /\ count = 32

\* C11: for every layout value made of a region constant plus a slot below
\* 512, the three least significant bits of its second byte determine the
\* region: no value of another region has the same bits, whatever the slot.
C11_BitsDetermineRegion ==
    op = "gridBits" =>
        \A r \in {posNothing, posLeft, posRight, posMiddle} :
            \A s \in 0..511 :
                gridBits(encode(r, s)) = bits => r = region

\* the label that names each pin function
LabelOf ==
    ("btnUnmapped" :> "Unmapped")
    @@ ("btnTrigger" :> "Trigger")
    @@ ("btnGunA" :> "Button A")
    @@ ("btnGunB" :> "Button B")
    @@ ("btnGunC" :> "Button C")
    @@ ("btnStart" :> "Start")
    @@ ("btnSelect" :> "Select")
    @@ ("btnGunUp" :> "D-Pad Up")
    @@ ("btnGunDown" :> "D-Pad Down")
    @@ ("btnGunLeft" :> "D-Pad Left")
    @@ ("btnGunRight" :> "D-Pad Right")
    @@ ("btnPedal" :> "Pedal")
    @@ ("btnPedal2" :> "Alt Pedal")
    @@ ("btnPump" :> "Pump Action")
    @@ ("btnHome" :> "Home Button")
    @@ ("rumblePin" :> "Rumble Signal")
    @@ ("solenoidPin" :> "Solenoid Signal")
    @@ ("rumbleSwitch" :> "Rumble Switch")
    @@ ("solenoidSwitch" :> "Solenoid Switch")
    @@ ("autofireSwitch" :> "Autofire Switch")
    @@ ("neoPixel" :> "External NeoPixel")
    @@ ("ledR" :> "RGB LED Red")
    @@ ("ledG" :> "RGB LED Green")
    @@ ("ledB" :> "RGB LED Blue")
    @@ ("camSDA" :> "Camera SDA")
    @@ ("camSCL" :> "Camera SCL")
    @@ ("periphSDA" :> "Peripherals SDA")
    @@ ("periphSCL" :> "Peripherals SCL")
    @@ ("battery" :> "Battery Sensor (Unused)")
    @@ ("analogX" :> "Analog Stick X")
    @@ ("analogY" :> "Analog Stick Y")
    @@ ("tempPin" :> "Temp Sensor")
    @@ ("wiiClockGen" :> "Wii Cam Clock")

\* C12: valuesNameList has boardInputsCount + 1 entries and its entry f + 1
\* is the label of function f for f from btnUnmapped to boardInputsCount-1
\* (entry 0 "Unmapped", entry 1 "Trigger", the last the label of
\* wiiClockGen), so no function of that range reads past its end.
C12_LabelsMatchInputs ==
    op = "readLabel" =>
        /\ Len(valuesNameList) = boardInputsCount + 1
        /\ index + 1 < Len(valuesNameList)
        /\ label = LabelOf[field]
        /\ index = -1 => (field = "btnUnmapped" /\ label = "Unmapped")
        /\ index = 0 => (field = "btnTrigger" /\ label = "Trigger")
        /\ index = boardInputsCount - 1 =>
               /\ field = "wiiClockGen"
               /\ label = valuesNameList[Len(valuesNameList)]

C12_Witness ==
    /\ op = "readLabel"
    /\ index = 31
    /\ field = "wiiClockGen"
    /\ label = "Wii Cam Clock"

\* C13: within the layout of a board no two GPIOs whose entry is not
\* posNothing have the same packed value: every drawn pin has its own
\* (region, slot) cell.
C13_DrawnPinsOwnCell ==
    op = "lookupLayout" =>
        \A i, j \in 1..Len(layout) :
            (i # j /\ layout[i] # posNothing) =>
                (layout[i] # layout[j] /\ decode(layout[i]) # decode(layout[j]))

C13_Witness ==
    /\ op = "lookupLayout"
    /\ board = "rpipico"
    /\ layout[16] = encode(posLeft, 20)
    /\ layout[17] = encode(posRight, 20)
    /\ layout[24] = posNothing
    /\ layout[25] = posNothing

\* C14: the tables agree on keys and shapes: a key of boardsPresetsMap is
\* a key of boardsBoxPositions and of boardNames, with a layout as long as
\* the default mapping; a key of boardsAltPresets is a key of
\* boardsPresetsMap; each alternate marks unavailable exactly the GPIOs the
\* default marks unavailable; the labels of a board's alternates differ.
C14_TablesAgree ==
    op = "describeBoard" =>
        /\ found =>
               /\ board \in DOMAIN boardsBoxPositions
               /\ board \in DOMAIN boardNames
               /\ name # ""
               /\ Len(layout) = Len(mapping)
        /\ Len(alternates) > 0 => found
        /\ \A k \in 1..Len(alternates) :
               /\ Len(alternates[k].pin) = Len(mapping)
               /\ \A i \in 1..Len(mapping) :
                      (alternates[k].pin[i] = unavailable)
                          <=> (mapping[i] = unavailable)
        /\ \A k, h \in 1..Len(alternates) :
               k # h => alternates[k].name # alternates[h].name

C14_Witness ==
    /\ op = "describeBoard"
    /\ board = "adafruitItsyRP2040"
    /\ found
    /\ name = "Adafruit ItsyBitsy RP2040"
    /\ Len(layout) = 30
    /\ Len(alternates) = 2
    /\ alternates[1].name = "SAMCO 2.0"
    /\ alternates[2].name = "SAMCO 1.1"
    /\ mapping[14] = unavailable
    /\ alternates[2].pin[14] = unavailable

=============================================================================
